---- MODULE Spec2Model ----
(***************************************************************************)
(* Backtester.run_backtest and Backtester._calculate_statistics            *)
(* (src/backtester.py) as a state machine.                                 *)
(*                                                                         *)
(* Numbers.  The program computes in IEEE doubles.  The model computes in  *)
(* exact rationals extended with the three special doubles: a number is a  *)
(* pair <<n, d>>, in lowest terms with d > 0, or <<1, 0>> (+inf),          *)
(* <<-1, 0>> (-inf), <<0, 0>> (NaN).  Division by zero produces inf or     *)
(* NaN as numpy's float64 division does (a warning, no exception).         *)
(* Rounding error is not modelled: an equality of the model is an equality *)
(* of the real-number values the doubles approximate.                      *)
(***************************************************************************)
EXTENDS Integers, Sequences, FiniteSets, TLC

(***************************************************************************)
(* Extended rational arithmetic                                            *)
(***************************************************************************)
Abs(n) == IF n < 0 THEN -n ELSE n

Sgn(n) == IF n < 0 THEN -1 ELSE IF n > 0 THEN 1 ELSE 0

RECURSIVE GCD(_, _)
GCD(a, b) == IF b = 0 THEN a ELSE GCD(b, a % b)

\* The number n/d in canonical form.
Norm(n, d) ==
    IF d = 0 THEN <<Sgn(n), 0>>
    ELSE IF n = 0 THEN <<0, 1>>
    ELSE LET g == GCD(Abs(n), Abs(d))
         IN  <<Sgn(d) * (n \div g), Abs(d) \div g>>

Zero == <<0, 1>>
One == <<1, 1>>
NaN == <<0, 0>>
PosInf == <<1, 0>>
NegInf == <<-1, 0>>
Q(n) == <<n, 1>>

IsNaN(x) == x = NaN
IsFinite(x) == x[2] # 0

QNeg(x) == <<-x[1], x[2]>>

QAbs(x) == <<Abs(x[1]), x[2]>>

QAdd(x, y) ==
    IF IsNaN(x) \/ IsNaN(y) THEN NaN
    ELSE IF ~IsFinite(x) /\ ~IsFinite(y) THEN (IF x = y THEN x ELSE NaN)
    ELSE IF ~IsFinite(x) THEN x
    ELSE IF ~IsFinite(y) THEN y
    ELSE LET g == GCD(x[2], y[2])
         IN  Norm(x[1] * (y[2] \div g) + y[1] * (x[2] \div g), x[2] * (y[2] \div g))

QSub(x, y) == QAdd(x, QNeg(y))

QMul(x, y) ==
    IF IsNaN(x) \/ IsNaN(y) THEN NaN
    ELSE IF ~IsFinite(x) \/ ~IsFinite(y) THEN <<Sgn(x[1]) * Sgn(y[1]), 0>>
    ELSE IF x[1] = 0 \/ y[1] = 0 THEN Zero
    ELSE LET g1 == GCD(Abs(x[1]), y[2])
             g2 == GCD(Abs(y[1]), x[2])
         IN  Norm((x[1] \div g1) * (y[1] \div g2), (x[2] \div g2) * (y[2] \div g1))

\* 1/y; 1/0 is +inf, 1/inf is 0.
QInv(y) ==
    IF IsNaN(y) THEN NaN
    ELSE IF ~IsFinite(y) THEN Zero
    ELSE IF y[1] = 0 THEN PosInf
    ELSE <<Sgn(y[1]) * y[2], Abs(y[1])>>

QDiv(x, y) ==
    IF IsFinite(x) /\ x[1] = 0 /\ IsFinite(y) /\ y[1] = 0 THEN NaN
    ELSE IF ~IsFinite(x) /\ ~IsFinite(y) THEN NaN
    ELSE QMul(x, QInv(y))

\* Comparisons of doubles: every ordered comparison with NaN is false,
\* == with NaN is false and != with NaN is true.
QLt(x, y) ==
    IF IsNaN(x) \/ IsNaN(y) THEN FALSE
    ELSE IF ~IsFinite(x) /\ ~IsFinite(y) THEN x[1] < y[1]
    ELSE IF ~IsFinite(x) THEN x[1] < 0
    ELSE IF ~IsFinite(y) THEN y[1] > 0
    ELSE LET g == GCD(x[2], y[2])
         IN  x[1] * (y[2] \div g) < y[1] * (x[2] \div g)

QGt(x, y) == QLt(y, x)

QEq(x, y) == ~IsNaN(x) /\ ~IsNaN(y) /\ x = y

QNe(x, y) == ~QEq(x, y)

QLe(x, y) == QLt(x, y) \/ QEq(x, y)

RECURSIVE QSum(_)
QSum(s) == IF s = <<>> THEN Zero ELSE QAdd(QSum(SubSeq(s, 1, Len(s) - 1)), s[Len(s)])

RECURSIVE QMax(_)
QMax(s) == IF Len(s) = 1 THEN s[1]
           ELSE LET m == QMax(SubSeq(s, 1, Len(s) - 1))
                IN  IF QGt(s[Len(s)], m) THEN s[Len(s)] ELSE m

RECURSIVE QMin(_)
QMin(s) == IF Len(s) = 1 THEN s[1]
           ELSE LET m == QMin(SubSeq(s, 1, Len(s) - 1))
                IN  IF QLt(s[Len(s)], m) THEN s[Len(s)] ELSE m

(***************************************************************************)
(* Time.  A parsed timestamp is a count of minutes; NaT is what            *)
(* pd.to_datetime(errors='coerce') gives for a string it cannot parse.     *)
(* A raw timestamp is the caller's string: <<day, minute>> stands for a    *)
(* string in the format '%d-%m-%Y %H:%M', <<>> for any other string.       *)
(***************************************************************************)
NaT == -1
NoDate == -2
Unbound == -3
MinutesPerDay == 1440

ToDatetime(raw) == IF raw = <<>> THEN NaT ELSE raw[1] * MinutesPerDay + raw[2]

\* Timestamp.date(); NaT.date() is NaT.
DateOf(t) == IF t = NaT THEN NaT ELSE t \div MinutesPerDay

(***************************************************************************)
(* Inputs                                                                  *)
(***************************************************************************)
MaxBars == 3
MaxRuns == 2
BarGap == 720

Half == <<1, 2>>
Signals == {Zero, One, QNeg(One), Half}

\* The test script's parameters (capital 10000, cost 0.0003) on the prices
\* 100, 110, and a coarser family on which longer runs stay small.
ScenarioSelf == [initial_capital |-> Q(10000), transaction_cost_pct |-> <<3, 10000>>]
ScenarioPrices == <<Q(100), Q(110)>>
ScenarioSignals == {Zero, One}
SmallSelves == {[initial_capital |-> Q(1000), transaction_cost_pct |-> c] : c \in {Zero, <<1, 4>>}}
SmallPrices == {Q(1), Q(2)}

RawTime(k) == <<(k * BarGap) \div MinutesPerDay, (k * BarGap) % MinutesPerDay>>

\* How the caller filled the datetime column: every bar at an ascending
\* parseable time, or every bar unparseable; "absent" is a frame with no
\* datetime column.
TimeModes == {"valid", "unparseable", "absent"}

RawOf(mode, k) == IF mode = "valid" THEN RawTime(k) ELSE <<>>

\* ps is a sequence of <<price, signal>> pairs, one per bar.
Frame(mode, ps) ==
    [has_dt |-> mode # "absent",
     rows |-> [k \in 1..Len(ps) |->
                 [datetime |-> RawOf(mode, k), close |-> ps[k][1], signal |-> ps[k][2]]]]

SeqsUpTo(S, n) == UNION {[1..k -> S] : k \in 0..n}

SmallFrames ==
    {Frame(m, ps) : m \in TimeModes, ps \in SeqsUpTo(SmallPrices \X Signals, MaxBars)}

ScenarioFrames ==
    {Frame(m, [k \in 1..Len(s) |-> <<ScenarioPrices[k], s[k]>>]) :
        m \in TimeModes, s \in SeqsUpTo(ScenarioSignals, Len(ScenarioPrices))}

\* Frames the specification calls invalid input: no bar at all, a price that
\* is zero or negative, timestamps that do not ascend.
BadPrices == {Q(0), Q(-1), Q(1)}

DescendingFrame(ps) ==
    [has_dt |-> TRUE,
     rows |-> [k \in 1..Len(ps) |->
                 [datetime |-> RawTime(Len(ps) + 1 - k), close |-> ps[k][1], signal |-> ps[k][2]]]]

InvalidFrames ==
    {Frame("valid", ps) : ps \in {qs \in SeqsUpTo(BadPrices \X Signals, MaxBars) :
                                     \A k \in 1..Len(qs) : qs[k][1] # Q(1)}}
    \cup {DescendingFrame(ps) : ps \in {qs \in SeqsUpTo(SmallPrices \X Signals, MaxBars) :
                                           Len(qs) >= 2}}

(***************************************************************************)
(* State                                                                   *)
(***************************************************************************)
VARIABLES
    self,               \* the Backtester: initial_capital, transaction_cost_pct
    data,               \* the caller's frame, the argument of run_backtest
    pc,                 \* where the call is: start, loop, close, stats, done, raised
    df,                 \* the local copy of the frame, converted and sorted
    i,                  \* 1-based number of the next bar (the code's i is i - 1)
    capital,
    position,
    entry_price,
    position_value,
    entry_time,
    trades,
    daily_pnl,
    equity_curve,
    transaction_costs,
    results,            \* what the call returned, once pc = "done"
    run,                \* number of the current call on this instance
    prev                \* outcomes of the earlier calls, oldest first

locals == <<df, i, capital, position, entry_price, position_value, entry_time,
            trades, daily_pnl, equity_curve, transaction_costs>>

vars == <<self, data, pc, locals, results, run, prev>>

(***************************************************************************)
(* run_backtest: preparation of the frame                                  *)
(***************************************************************************)
\* Where row r goes in s, sorted by datetime with NaT last: after every row
\* that does not come later (the sort is stable on inputs this short).
InsertAt(s, r) ==
    LET later == {k \in 1..Len(s) :
                    /\ r.datetime # NaT
                    /\ (s[k].datetime = NaT \/ s[k].datetime > r.datetime)}
    IN  IF later = {} THEN Len(s) + 1
        ELSE CHOOSE k \in later : \A j \in later : k <= j

RECURSIVE SortByTime(_)
SortByTime(rows) ==
    IF rows = <<>> THEN <<>>
    ELSE LET s == SortByTime(SubSeq(rows, 1, Len(rows) - 1))
             r == rows[Len(rows)]
             k == InsertAt(s, r)
         IN  SubSeq(s, 1, k - 1) \o <<r>> \o SubSeq(s, k, Len(s))

\* df = data.copy(); with a datetime column, its strings are parsed and the
\* rows sorted by it.
PrepareFrame(d) ==
    IF d.has_dt
    THEN [has_dt |-> TRUE,
          rows |-> SortByTime([k \in 1..Len(d.rows) |->
                      [d.rows[k] EXCEPT !.datetime = ToDatetime(d.rows[k].datetime)]])]
    ELSE d

(***************************************************************************)
(* run_backtest: the position                                              *)
(***************************************************************************)
\* pnl of the open position at a price (the same expression marks the
\* position to market and realizes it).
PnlAt(pos, value, price, entry) ==
    IF QGt(pos, Zero)
    THEN QMul(value, QSub(QDiv(price, entry), One))
    ELSE QMul(value, QSub(One, QDiv(price, entry)))

\* Variant: the test written as position >= 0.
HasPositionOrFlat(pos) == ~QLt(pos, Zero)

HasPosition(pos) == QNe(pos, Zero)

\* Variant: every bar trades.
PositionAlwaysChanges(new_position, pos) == TRUE

\* Variant: only a change of direction trades.
PositionChangesDirection(new_position, pos) == Sgn(new_position[1]) # Sgn(pos[1])

PositionChanges(new_position, pos) == QNe(new_position, pos)

ExitCost(value, cost_pct) == QMul(QAbs(value), cost_pct)

\* Variant: the exit cost is recorded but not deducted.
NetPnlGross(pnl, exit_cost) == pnl

NetPnl(pnl, exit_cost) == QSub(pnl, exit_cost)

Notional(cap, new_position) == QMul(cap, QAbs(new_position))

EntryCost(value, cost_pct) == QMul(value, cost_pct)

\* Variant: a date keeps only the last amount.
AddDailyOverwrites(daily, date, amount) ==
    IF date = NoDate THEN daily
    ELSE [d \in DOMAIN daily \cup {date} |-> IF d = date THEN amount ELSE daily[d]]

AddDaily(daily, date, amount) ==
    IF date = NoDate THEN daily
    ELSE [d \in DOMAIN daily \cup {date} |->
            IF d = date
            THEN QAdd(IF d \in DOMAIN daily THEN daily[d] ELSE Zero, amount)
            ELSE daily[d]]

TradeOf(st, price, time, pnl, exit_cost) ==
    [entry_time |-> st.entry_time,
     exit_time |-> time,
     entry_price |-> st.entry_price,
     exit_price |-> price,
     position_type |-> IF QGt(st.position, Zero) THEN "LONG" ELSE "SHORT",
     position_size |-> QAbs(st.position),
     pnl |-> pnl,
     transaction_cost |-> exit_cost,
     net_pnl |-> NetPnl(pnl, exit_cost)]

\* Realize the open position at a price: cost, capital, ledger, daily P&L.
Settle(st, cost_pct, price, time, date) ==
    LET pnl == PnlAt(st.position, st.position_value, price, st.entry_price)
        exit_cost == ExitCost(st.position_value, cost_pct)
    IN  [st EXCEPT
            !.transaction_costs = Append(@, exit_cost),
            !.capital = QAdd(@, NetPnl(pnl, exit_cost)),
            !.trades = Append(@, TradeOf(st, price, time, pnl, exit_cost)),
            !.daily_pnl = AddDaily(@, date, NetPnl(pnl, exit_cost))]

\* Close inside the loop: settle, then reset the position.
ClosePosition(st, cost_pct, price, time, date) ==
    [Settle(st, cost_pct, price, time, date) EXCEPT
        !.position = Zero,
        !.position_value = Zero]

\* Variant: the entry cost is deducted before the notional is taken.
OpenPositionAfterCost(st, cost_pct, new_position, price, time) ==
    LET entry_cost == EntryCost(Notional(st.capital, new_position), cost_pct)
        value == Notional(QSub(st.capital, entry_cost), new_position)
    IN  [st EXCEPT
            !.position = new_position,
            !.position_value = value,
            !.entry_price = price,
            !.entry_time = time,
            !.transaction_costs = Append(@, entry_cost),
            !.capital = QSub(@, entry_cost)]

OpenPosition(st, cost_pct, new_position, price, time) ==
    LET value == Notional(st.capital, new_position)
        entry_cost == EntryCost(value, cost_pct)
    IN  [st EXCEPT
            !.position = new_position,
            !.position_value = value,
            !.entry_price = price,
            !.entry_time = time,
            !.transaction_costs = Append(@, entry_cost),
            !.capital = QSub(@, entry_cost)]

\* The position state the loop works on, as one record.
State ==
    [capital |-> capital, position |-> position, entry_price |-> entry_price,
     position_value |-> position_value, entry_time |-> entry_time, trades |-> trades,
     daily_pnl |-> daily_pnl, transaction_costs |-> transaction_costs]

SetState(st) ==
    /\ capital' = st.capital
    /\ position' = st.position
    /\ entry_price' = st.entry_price
    /\ position_value' = st.position_value
    /\ entry_time' = st.entry_time
    /\ trades' = st.trades
    /\ daily_pnl' = st.daily_pnl
    /\ transaction_costs' = st.transaction_costs

\* current_time and current_date of bar k (lines 61-62): without a datetime
\* column the time is the row number and there is no date.
TimeOfBar(frame, k) == IF frame.has_dt THEN frame.rows[k].datetime ELSE k - 1

DateOfTime(frame, t) == IF frame.has_dt THEN DateOf(t) ELSE NoDate

\* Variant: the open position is not marked to market.
EquityRealizedOnly(st, price) == st.capital

Equity(st, price) ==
    IF HasPosition(st.position)
    THEN QAdd(st.capital, PnlAt(st.position, st.position_value, price, st.entry_price))
    ELSE st.capital

\* Variant: a change to a non-zero target opens without closing what is held.
TradeReversalKeepsOld(st, cost_pct, price, signal, time, date) ==
    IF PositionChanges(signal, st.position)
    THEN IF QNe(signal, Zero)
         THEN OpenPosition(st, cost_pct, signal, price, time)
         ELSE IF HasPosition(st.position)
              THEN ClosePosition(st, cost_pct, price, time, date)
              ELSE st
    ELSE st

\* Variant: the new notional is taken from the capital before the close.
TradeSizesOnOldCapital(st, cost_pct, price, signal, time, date) ==
    IF PositionChanges(signal, st.position)
    THEN LET closed == IF HasPosition(st.position)
                       THEN ClosePosition(st, cost_pct, price, time, date)
                       ELSE st
             value == Notional(st.capital, signal)
             entry_cost == EntryCost(value, cost_pct)
         IN  IF QNe(signal, Zero)
             THEN [closed EXCEPT
                     !.position = signal,
                     !.position_value = value,
                     !.entry_price = price,
                     !.entry_time = time,
                     !.transaction_costs = Append(@, entry_cost),
                     !.capital = QSub(@, entry_cost)]
             ELSE closed
    ELSE st

\* One bar's trading (lines 83-139): the target is the bar's signal.
Trade(st, cost_pct, price, signal, time, date) ==
    IF PositionChanges(signal, st.position)
    THEN LET closed == IF HasPosition(st.position)
                       THEN ClosePosition(st, cost_pct, price, time, date)
                       ELSE st
         IN  IF QNe(signal, Zero)
             THEN OpenPosition(closed, cost_pct, signal, price, time)
             ELSE closed
    ELSE st

(***************************************************************************)
(* _calculate_statistics                                                   *)
(***************************************************************************)
\* A statistic is a number, or an expression the rationals do not hold
\* (a fractional power, a square root), kept by its operands:
\*   num:    a
\*   cagr:   (pow(a, 1/b) - 1) * 100
\*   sharpe: a / sqrt(b) * sqrt(252)
\*   calmar: abs(((pow(a, 1/b) - 1) * 100) / c)
Num(x) == [tag |-> "num", a |-> x, b |-> Zero, c |-> Zero]

Hundred == <<100, 1>>
DaysPerYear == <<1461, 4>>

Mean(xs) == QDiv(QSum(xs), Q(Len(xs)))

NotNaN(x) == ~IsNaN(x)

\* pandas reductions skip NaN; of nothing left they give NaN.
MeanSkipNa(xs) ==
    LET v == SelectSeq(xs, NotNaN) IN IF v = <<>> THEN NaN ELSE Mean(v)

MinSkipNa(xs) ==
    LET v == SelectSeq(xs, NotNaN) IN IF v = <<>> THEN NaN ELSE QMin(v)

MaxSkipNa(xs) ==
    LET v == SelectSeq(xs, NotNaN) IN IF v = <<>> THEN NaN ELSE QMax(v)

\* Sample variance (ddof = 1), the square of Series.std(): of one value
\* it is 0/0.
Variance(xs) ==
    LET m == Mean(xs)
        sq == [k \in 1..Len(xs) |-> QMul(QSub(xs[k], m), QSub(xs[k], m))]
    IN  QDiv(QSum(sq), Q(Len(xs) - 1))

IsPositive(x) == QGt(x, Zero)
IsNegative(x) == QLt(x, Zero)

NetPnls(ts) == [k \in 1..Len(ts) |-> ts[k].net_pnl]

\* (exit_time - entry_time).dt.total_seconds(); NaT gives NaN.
HoldSeconds(t) ==
    IF t.entry_time = NaT \/ t.exit_time = NaT THEN NaN
    ELSE Q((t.exit_time - t.entry_time) * 60)

HoldPeriods(ts) == [k \in 1..Len(ts) |-> HoldSeconds(ts[k])]

\* The values of daily_pnl, as a sequence.
RECURSIVE ValuesOf(_)
ValuesOf(f) ==
    IF DOMAIN f = {} THEN <<>>
    ELSE LET d == CHOOSE x \in DOMAIN f : \A y \in DOMAIN f : x <= y
         IN  <<f[d]>> \o ValuesOf([y \in DOMAIN f \ {d} |-> f[y]])

\* df[datetime_col].min() and .max(): NaT is skipped, NaT if nothing is left.
Stamps(frame) == {frame.rows[k].datetime : k \in 1..Len(frame.rows)} \ {NaT}

StartDate(frame) ==
    IF Stamps(frame) = {} THEN NaT
    ELSE CHOOSE t \in Stamps(frame) : \A u \in Stamps(frame) : t <= u

EndDate(frame) ==
    IF Stamps(frame) = {} THEN NaT
    ELSE CHOOSE t \in Stamps(frame) : \A u \in Stamps(frame) : t >= u

\* Lines 247-251.  None is false; a Timestamp and NaT are true, and
\* (NaT - NaT).days is NaN.
CalendarDays(frame, n_days) ==
    IF frame.has_dt
    THEN IF StartDate(frame) = NaT THEN NaN
         ELSE Q((EndDate(frame) - StartDate(frame)) \div MinutesPerDay + 1)
    ELSE Q(n_days)

\* equity.pct_change().dropna()
PctChange(eq) == [k \in 1..(Len(eq) - 1) |-> QSub(QDiv(eq[k + 1], eq[k]), One)]

Returns(eq) == SelectSeq(PctChange(eq), NotNaN)

\* equity.cummax(): the running maximum skips NaN and is NaN where equity is.
CumMax(eq) ==
    [k \in 1..Len(eq) |-> IF IsNaN(eq[k]) THEN NaN ELSE MaxSkipNa(SubSeq(eq, 1, k))]

Drawdown(eq) ==
    [k \in 1..Len(eq) |-> QMul(QDiv(QSub(eq[k], CumMax(eq)[k]), CumMax(eq)[k]), Hundred)]

MaxDrawdown(eq) == MinSkipNa(Drawdown(eq))

Years(n_calendar_days) == QDiv(n_calendar_days, DaysPerYear)

Cagr(final_capital, initial_capital, years) ==
    IF QGt(years, Zero)
    THEN LET ratio == QDiv(final_capital, initial_capital)
         IN  IF IsNaN(ratio) THEN Num(NaN)
             ELSE IF ratio = One THEN Num(Zero)
             ELSE [tag |-> "cagr", a |-> ratio, b |-> years, c |-> Zero]
    ELSE Num(Zero)

AnnualizedReturns(final_capital, initial_capital, years) ==
    IF QGt(years, Zero)
    THEN QMul(QDiv(QSub(QDiv(final_capital, initial_capital), One), years), Hundred)
    ELSE Zero

\* Lines 271-274.
SharpeRatio(rets) ==
    IF Len(rets) > 0 /\ QNe(Variance(rets), Zero)
    THEN IF IsNaN(Mean(rets)) \/ IsNaN(Variance(rets)) THEN Num(NaN)
         ELSE IF Mean(rets) = Zero /\ IsFinite(Variance(rets)) THEN Num(Zero)
         ELSE [tag |-> "sharpe", a |-> Mean(rets), b |-> Variance(rets), c |-> Zero]
    ELSE Num(Zero)

\* Lines 282-285.
CalmarRatio(cagr, max_drawdown) ==
    IF QLt(max_drawdown, Zero)
    THEN IF cagr.tag = "num" THEN Num(QAbs(QDiv(cagr.a, max_drawdown)))
         ELSE [tag |-> "calmar", a |-> cagr.a, b |-> cagr.b, c |-> max_drawdown]
    ELSE Num(Zero)

\* The exception the call ends with, "" if it returns.  With a trade in the
\* ledger and no datetime column the hold period is a difference of row
\* numbers, which has no .dt accessor (line 212); an empty equity curve
\* gives a frame with no 'equity' column (line 268).
Raises(frame, ts, eq) ==
    IF Len(ts) > 0 /\ ~frame.has_dt THEN "AttributeError"
    ELSE IF Len(eq) = 0 THEN "KeyError"
    ELSE ""

Statistics(me, frame, final_capital, ts, daily, curve, costs) ==
    LET net == NetPnls(ts)
        n_trades == Len(ts)
        winning == SelectSeq(net, IsPositive)
        losing == SelectSeq(net, IsNegative)
        days == ValuesOf(daily)
        n_days == Len(days)
        n_calendar_days == CalendarDays(frame, n_days)
        years == Years(n_calendar_days)
        eq == [k \in 1..Len(curve) |-> curve[k].equity]
        cagr == Cagr(final_capital, me.initial_capital, years)
        max_drawdown == MaxDrawdown(eq)
        hold == IF n_trades > 0 THEN MeanSkipNa(HoldPeriods(ts)) ELSE Zero
    IN  [initial_capital |-> me.initial_capital,
         final_capital |-> final_capital,
         total_pnl |-> QSub(final_capital, me.initial_capital),
         total_transaction_cost |-> QSum(costs),
         final_returns |->
            QMul(QDiv(QSub(final_capital, me.initial_capital), me.initial_capital), Hundred),
         cagr |-> cagr,
         annualized_returns |-> AnnualizedReturns(final_capital, me.initial_capital, years),
         sharpe_ratio |-> SharpeRatio(Returns(eq)),
         calmar_ratio |-> CalmarRatio(cagr, max_drawdown),
         max_drawdown |-> max_drawdown,
         n_days |-> n_calendar_days,
         winning_days |-> Len(SelectSeq(days, IsPositive)),
         losing_days |-> Len(SelectSeq(days, IsNegative)),
         best_day_pnl |-> IF n_days > 0 THEN QMax(days) ELSE Zero,
         worst_day_pnl |-> IF n_days > 0 THEN QMin(days) ELSE Zero,
         total_trades |-> n_trades,
         winning_trades |-> Len(winning),
         losing_trades |-> Len(losing),
         win_rate |-> IF n_trades > 0
                      THEN QMul(QDiv(Q(Len(winning)), Q(n_trades)), Hundred) ELSE Zero,
         avg_winning_trade |-> IF Len(winning) > 0 THEN Mean(winning) ELSE Zero,
         avg_losing_trade |-> IF Len(losing) > 0 THEN Mean(losing) ELSE Zero,
         avg_hold_seconds |-> hold,
         avg_hold_minutes |-> QDiv(hold, Q(60)),
         best_trade |-> IF n_trades > 0 THEN MaxSkipNa(net) ELSE Zero,
         worst_trade |-> IF n_trades > 0 THEN MinSkipNa(net) ELSE Zero,
         trades_df |-> ts,
         equity_curve |-> curve]

\* What stands in place of the results of a call that has not returned:
\* the exception it raised, "" while it runs.
NoResults(err) == [raised |-> err]

\* Variant: the call stores its final capital on the instance.
InstanceKeepsCapital(me, final_capital) == [me EXCEPT !.initial_capital = final_capital]

\* run_backtest assigns no attribute of the instance.
InstanceAfter(me, final_capital) == me

(***************************************************************************)
(* The calls                                                               *)
(***************************************************************************)
NoFrame == [has_dt |-> FALSE, rows |-> <<>>]

InitWith(selves, frames) ==
    /\ self \in selves
    /\ data \in frames
    /\ pc = "start"
    /\ df = NoFrame
    /\ i = 1
    /\ capital = Zero
    /\ position = Zero
    /\ entry_price = Zero
    /\ position_value = Zero
    /\ entry_time = Unbound
    /\ trades = <<>>
    /\ daily_pnl = <<>>
    /\ equity_curve = <<>>
    /\ transaction_costs = <<>>
    /\ results = NoResults("")
    /\ run = 1
    /\ prev = <<>>

Init ==
    \/ InitWith(SmallSelves, SmallFrames)
    \/ InitWith({ScenarioSelf}, ScenarioFrames)

\* Lines 39-56: the copy of the frame and the tracking variables.
Begin ==
    /\ pc = "start"
    /\ df' = PrepareFrame(data)
    /\ i' = 1
    /\ capital' = self.initial_capital
    /\ position' = Zero
    /\ entry_price' = Zero
    /\ position_value' = Zero
    /\ entry_time' = Unbound
    /\ trades' = <<>>
    /\ daily_pnl' = <<>>
    /\ equity_curve' = <<>>
    /\ transaction_costs' = <<>>
    /\ pc' = IF Len(df'.rows) = 0 THEN "close" ELSE "loop"
    /\ UNCHANGED <<self, data, results, run, prev>>

\* Lines 58-139: one iteration of the loop.
Bar ==
    /\ pc = "loop"
    /\ LET price == df.rows[i].close
           signal == df.rows[i].signal
           time == TimeOfBar(df, i)
           date == DateOfTime(df, time)
       IN  /\ equity_curve' = Append(equity_curve,
                                     [datetime |-> time,
                                      equity |-> Equity(State, price),
                                      price |-> price,
                                      signal |-> signal,
                                      position |-> position])
           /\ SetState(Trade(State, self.transaction_cost_pct, price, signal, time, date))
    /\ i' = i + 1
    /\ pc' = IF i = Len(df.rows) THEN "close" ELSE "loop"
    /\ UNCHANGED <<self, data, df, results, run, prev>>

\* Lines 141-171: the position left open is realized at the last bar; the
\* position variables themselves are left as they are.  Reading the last
\* bar of an empty frame is a KeyError (line 143).
ForceClose ==
    /\ pc = "close"
    /\ IF HasPosition(position) /\ Len(df.rows) = 0
       THEN /\ pc' = "raised"
            /\ results' = NoResults("KeyError")
            /\ UNCHANGED <<capital, position, entry_price, position_value, entry_time,
                           trades, daily_pnl, transaction_costs>>
       ELSE /\ pc' = "stats"
            /\ results' = results
            /\ IF HasPosition(position)
               THEN LET n == Len(df.rows)
                        time == TimeOfBar(df, n)
                    IN  SetState(Settle(State, self.transaction_cost_pct, df.rows[n].close,
                                        time, DateOfTime(df, time)))
               ELSE UNCHANGED <<capital, position, entry_price, position_value, entry_time,
                                trades, daily_pnl, transaction_costs>>
    /\ UNCHANGED <<self, data, df, i, equity_curve, run, prev>>

\* Lines 173-184: the statistics, and the return.
Calculate ==
    /\ pc = "stats"
    /\ LET err == Raises(df, trades, equity_curve)
       IN  IF err = ""
           THEN /\ results' = Statistics(self, df, capital, trades, daily_pnl,
                                         equity_curve, transaction_costs)
                /\ pc' = "done"
           ELSE /\ results' = NoResults(err)
                /\ pc' = "raised"
    /\ self' = InstanceAfter(self, capital)
    /\ UNCHANGED <<data, locals, run, prev>>

\* The caller calls run_backtest again, on the same instance and frame.
Rerun ==
    /\ pc \in {"done", "raised"}
    /\ run < MaxRuns
    /\ prev' = Append(prev, [pc |-> pc, results |-> results, self |-> self, data |-> data])
    /\ run' = run + 1
    /\ results' = NoResults("")
    /\ pc' = "start"
    /\ UNCHANGED <<self, data, locals>>

\* The same calls on invalid input.
InitInvalid == InitWith(SmallSelves, InvalidFrames)

Next == Begin \/ Bar \/ ForceClose \/ Calculate \/ Rerun

Spec == Init /\ [][Next]_vars

SpecInvalid == InitInvalid /\ [][Next]_vars

(***************************************************************************)
(* Properties                                                              *)
(***************************************************************************)
Bars == Len(df.rows)
SignalAt(k) == df.rows[k].signal
\* The signal of the bar before bar k; the position before the first bar is 0.
SignalBefore(k) == IF k = 1 THEN Zero ELSE SignalAt(k - 1)
\* The loop and the forced close are over.
Finished == pc \in {"stats", "done", "raised"}
Within(x, y, tol) == QLt(QAbs(QSub(x, y)), tol)
Cent == <<1, 100>>

\* C1: when run_backtest has finished, forced close included, the net_pnl of
\* the Trade records sums to final_capital - initial_capital.
C1_NetPnlSumsToTotalPnl ==
    pc = "done" =>
        QSum(NetPnls(results.trades_df)) = QSub(results.final_capital, results.initial_capital)

\* The scenario of C2: capital 10000, cost 0.0003, bars (100, 1), (110, 0).
IsScenario ==
    /\ self = ScenarioSelf
    /\ Len(data.rows) = 2
    /\ data.rows[1].close = Q(100) /\ data.rows[1].signal = One
    /\ data.rows[2].close = Q(110) /\ data.rows[2].signal = Zero

\* C2 as stated: in the scenario the entry cost is 3 and leaves capital 9997,
\* the one Trade is LONG with gross P&L 999.7 and exit cost 9997 * 0.0003,
\* final capital is about 10993.70 and net_pnl about 996.70.
C2_ScenarioOnCapitalAfterCost ==
    (IsScenario /\ pc = "done") =>
        /\ results.total_trades = 1
        /\ results.trades_df[1].position_type = "LONG"
        /\ transaction_costs[1] = Q(3)
        /\ results.trades_df[1].pnl = <<9997, 10>>
        /\ results.trades_df[1].transaction_cost = <<29991, 10000>>
        /\ Within(results.final_capital, <<1099370, 100>>, Cent)
        /\ Within(results.trades_df[1].net_pnl, <<99670, 100>>, Cent)

\* C2 as amended: in the scenario the entry cost is 3 and leaves capital 9997;
\* gross P&L and exit cost are computed on the notional 10000 taken before
\* the entry cost: gross P&L 1000, exit cost 3, one LONG Trade with net_pnl
\* 997, final capital 10994.
C2_ScenarioOnCapitalBeforeCost ==
    /\ (IsScenario /\ pc = "loop" /\ i = 2) =>
            /\ transaction_costs = <<Q(3)>>
            /\ capital = Q(9997)
            /\ position_value = Q(10000)
    /\ (IsScenario /\ pc = "done") =>
            /\ results.total_trades = 1
            /\ results.trades_df[1].position_type = "LONG"
            /\ results.trades_df[1].pnl = Q(1000)
            /\ results.trades_df[1].transaction_cost = Q(3)
            /\ results.trades_df[1].net_pnl = Q(997)
            /\ results.final_capital = Q(10994)

C2_Witness == IsScenario /\ pc = "done" /\ results.total_trades = 1

AllFlat == \A k \in 1..Len(data.rows) : data.rows[k].signal = Zero

\* C3: with signal 0 on every bar there is no Trade, no cost is charged at
\* any point of the run, and the Results have final_capital equal to
\* initial_capital and total_transaction_cost 0.
C3_FlatSignalDoesNothing ==
    AllFlat =>
        /\ trades = <<>>
        /\ QSum(transaction_costs) = Zero
        /\ pc = "done" =>
              /\ results.trades_df = <<>>
              /\ results.total_trades = 0
              /\ results.final_capital = self.initial_capital
              /\ results.total_transaction_cost = Zero

C3_Witness == AllFlat /\ Len(data.rows) >= 2 /\ pc = "done"

\* C4: a single bar with a non-zero signal gives one Trade with entry_price
\* equal to exit_price whose net_pnl is minus the sum of its entry cost and
\* its exit cost.
C4_SingleBarNetIsBothCosts ==
    (Len(data.rows) = 1 /\ data.rows[1].signal # Zero /\ Finished) =>
        /\ Len(trades) = 1
        /\ trades[1].entry_price = trades[1].exit_price
        /\ Len(transaction_costs) = 2
        /\ trades[1].net_pnl = QNeg(QAdd(transaction_costs[1], transaction_costs[2]))

\* a..b is a maximal stretch of bars with one non-zero signal value.
IsStretch(a, b) ==
    /\ a <= b
    /\ SignalAt(a) # Zero
    /\ \A k \in a..b : SignalAt(k) = SignalAt(a)
    /\ SignalBefore(a) # SignalAt(a)
    /\ b = Bars \/ SignalAt(b + 1) # SignalAt(a)

\* Bars are told apart by their times (row numbers without a datetime column).
DistinctTimes == \A j, k \in 1..Bars : j # k => TimeOfBar(df, j) # TimeOfBar(df, k)

EntriesIn(a, b) ==
    {k \in 1..Len(trades) : \E j \in a..b : trades[k].entry_time = TimeOfBar(df, j)}

\* C5: a stretch of N >= 1 bars holding one non-zero signal gives exactly one
\* Trade, entered on the first bar of the stretch and closed on the bar after
\* it (the last bar if the stretch ends the run); the run charges one entry
\* cost and one exit cost per Trade, two costs in all when the stretch is the
\* whole run.
C5_OneTradePerStretch ==
    (Finished /\ DistinctTimes) =>
        /\ Len(transaction_costs) = 2 * Len(trades)
        /\ \A a, b \in 1..Bars :
              IsStretch(a, b) =>
                 /\ Cardinality(EntriesIn(a, b)) = 1
                 /\ \A k \in EntriesIn(a, b) :
                       /\ trades[k].entry_time = TimeOfBar(df, a)
                       /\ trades[k].exit_time = TimeOfBar(df, IF b = Bars THEN b ELSE b + 1)
                 /\ (a = 1 /\ b = Bars) => (Len(trades) = 1 /\ Len(transaction_costs) = 2)

C5_Witness ==
    /\ Finished /\ DistinctTimes
    /\ \E a, b \in 1..Bars : IsStretch(a, b) /\ b >= a + 1 /\ a > 1
    /\ \E b \in 1..Bars : IsStretch(1, b) /\ b < Bars

\* Bars whose signal differs from the signal before.
Transitions == Cardinality({k \in 1..Bars : SignalAt(k) # SignalBefore(k)})
\* Those of them that leave a non-zero signal, i.e. close a position.
ClosingTransitions ==
    Cardinality({k \in 1..Bars : SignalAt(k) # SignalBefore(k) /\ SignalBefore(k) # Zero})
OpenAtEnd == IF Bars > 0 /\ SignalAt(Bars) # Zero THEN 1 ELSE 0

\* C6 as stated: the number of Trades is the number of bars whose signal
\* differs from the previous bar's, plus one if a position is open at the end.
C6_TradesAreTransitions ==
    Finished => Len(trades) = Transitions + OpenAtEnd

\* C6 as amended: the number of Trades is the number of bars whose signal
\* differs from a non-zero signal on the previous bar, plus one if a position
\* is open after the last bar.
C6_TradesAreClosingTransitions ==
    Finished => Len(trades) = ClosingTransitions + OpenAtEnd

C6_Witness ==
    /\ Finished
    /\ Len(trades) = 3
    /\ OpenAtEnd = 1
    /\ Transitions = 3

\* The caller's frame is invalid input.
Ascending(rows) ==
    \A j, k \in 1..Len(rows) :
        (j < k /\ rows[j].datetime # <<>> /\ rows[k].datetime # <<>>) =>
            ToDatetime(rows[j].datetime) <= ToDatetime(rows[k].datetime)

InvalidInput ==
    \/ Len(data.rows) = 0
    \/ \E k \in 1..Len(data.rows) : QLe(data.rows[k].close, Zero)
    \/ data.has_dt /\ ~Ascending(data.rows)

\* C7: on an empty bar sequence, a zero or negative price, or timestamps out
\* of order, run_backtest raises: it never returns Results.
C7_InvalidInputIsRejected ==
    InvalidInput => pc # "done"

\* The timestamp is missing: no datetime column, or a string that is not a time.
MissingTimestamp ==
    \/ ~data.has_dt
    \/ \E k \in 1..Len(data.rows) : data.rows[k].datetime = <<>>

\* C8: with a missing timestamp and at least one bar the call returns, with
\* avg_hold_seconds, avg_hold_minutes and the calendar-day span all 0.
C8_MissingTimestampGivesZeroDurations ==
    (MissingTimestamp /\ Len(data.rows) >= 1) =>
        /\ pc # "raised"
        /\ pc = "done" =>
              /\ results.avg_hold_seconds = Zero
              /\ results.avg_hold_minutes = Zero
              /\ results.n_days = Zero

EquityOf(curve) == [k \in 1..Len(curve) |-> curve[k].equity]

\* The returns have zero variance: there is none, or they are all one finite
\* value (a single return among them).
DegenerateReturns(rets) ==
    \A j, k \in 1..Len(rets) : IsFinite(rets[j]) /\ rets[j] = rets[k]

\* C9: in the Results, sharpe_ratio is exactly 0 when the returns have zero
\* variance or there is none, calmar_ratio is exactly 0 when max_drawdown is
\* not negative, cagr and annualized_returns are exactly 0 when the elapsed
\* years are 0.
C9_DegenerateStatisticsAreZero ==
    pc = "done" =>
        /\ DegenerateReturns(Returns(EquityOf(results.equity_curve))) =>
              results.sharpe_ratio = Num(Zero)
        /\ ~QLt(results.max_drawdown, Zero) => results.calmar_ratio = Num(Zero)
        /\ Years(results.n_days) = Zero =>
              (results.cagr = Num(Zero) /\ results.annualized_returns = Zero)

\* The second call ended as the first did, with the same Results (scalars,
\* ledger and equity curve).
SecondRunRepeatsFirst ==
    (run = 2 /\ pc \in {"done", "raised"}) =>
        /\ pc = prev[1].pc
        /\ results = prev[1].results

\* C10: a second call on the same instance and frame returns the Results of
\* the first, and no step of a call changes the instance or the frame.
C10_RerunIsIdentical ==
    [](SecondRunRepeatsFirst) /\ [][self' = self /\ data' = data]_vars

C10_Witness ==
    /\ run = 2 /\ pc = "done"
    /\ results.total_trades >= 2
    /\ results = prev[1].results

\* Bars whose signal differs from the signal before and is not 0: the opens.
OpeningTransitions ==
    Cardinality({k \in 1..Bars : SignalAt(k) # SignalBefore(k) /\ SignalAt(k) # Zero})

\* Bars already processed by the loop.
Processed == IF pc = "loop" THEN i - 1 ELSE Bars

OpensSoFar ==
    Cardinality({k \in 1..Processed : SignalAt(k) # SignalBefore(k) /\ SignalAt(k) # Zero})

\* The call is in the loop or past it.
Running == pc \in {"loop", "close", "stats", "done", "raised"}

\* C11: every opened position is in the ledger.  While the loop runs the
\* Trades are the opens so far, less the one position still held, and the
\* costs charged are one per open and one per Trade; once the forced close is
\* over there is a Trade for every open, the Trades follow one another in
\* time, and a position held after the last bar is closed at the last bar's
\* price and timestamp.
C11_EveryOpenIsClosed ==
    /\ pc \in {"loop", "close"} =>
          /\ Len(trades) = OpensSoFar - (IF position # Zero THEN 1 ELSE 0)
          /\ Len(transaction_costs) = OpensSoFar + Len(trades)
    /\ Finished =>
          /\ Len(trades) = OpeningTransitions
          /\ Len(transaction_costs) = 2 * Len(trades)
          /\ \A k \in 1..Len(trades) :
                /\ trades[k].entry_time <= trades[k].exit_time
                /\ k < Len(trades) => trades[k].exit_time <= trades[k + 1].entry_time
          /\ OpenAtEnd = 1 =>
                /\ trades[Len(trades)].exit_price = df.rows[Bars].close
                /\ trades[Len(trades)].exit_time = TimeOfBar(df, Bars)

C11_Witness ==
    /\ pc = "stats"
    /\ Len(trades) = 2
    /\ OpenAtEnd = 1
    /\ DistinctTimes
    /\ trades[1].exit_time = trades[2].entry_time

\* The frame is the flat-price scenario: at least two bars, one price, and
\* the signal alternating 1, -1, 1, ...
FlatAlternating ==
    /\ Bars >= 2
    /\ \A k \in 1..Bars :
          /\ df.rows[k].close = df.rows[1].close
          /\ SignalAt(k) = (IF k % 2 = 1 THEN One ELSE QNeg(One))

\* C12: on a flat price with the signal alternating 1, -1, every bar after
\* the first closes one Trade (the last position is closed after the loop),
\* every Trade has gross pnl 0, and every Trade's net_pnl is minus the sum of
\* the entry cost and the exit cost charged for its position.
C12_FlatAlternatingNetIsBothCosts ==
    (Finished /\ FlatAlternating) =>
        /\ Len(trades) = Bars
        /\ \A k \in 2..Bars : trades[k - 1].exit_time = TimeOfBar(df, k)
        /\ Len(transaction_costs) = 2 * Bars
        /\ \A k \in 1..Len(trades) :
              /\ trades[k].pnl = Zero
              /\ trades[k].net_pnl =
                    QNeg(QAdd(transaction_costs[2 * k - 1], transaction_costs[2 * k]))

\* Capital plus the unrealized P&L of the position held on arrival at a bar
\* with the given price, written out from the variables.
ArrivalEquity(price) ==
    IF position = Zero THEN capital
    ELSE IF QGt(position, Zero)
         THEN QAdd(capital, QMul(position_value, QSub(QDiv(price, entry_price), One)))
         ELSE QAdd(capital, QMul(position_value, QSub(One, QDiv(price, entry_price))))

\* The snapshot a bar must append, from the state on arrival at the bar.
ArrivalSnapshot ==
    [datetime |-> TimeOfBar(df, i),
     equity |-> ArrivalEquity(df.rows[i].close),
     price |-> df.rows[i].close,
     signal |-> df.rows[i].signal,
     position |-> position]

\* C13: the equity curve has exactly one snapshot per processed bar, in bar
\* order, trade or no trade; each bar appends the snapshot whose equity is
\* capital plus the unrealized P&L of the position held on arrival (capital
\* alone if flat) and whose position is the one held before the bar's signal
\* is applied; no other step of the call touches the curve.
C13_OneSnapshotPerBar ==
    /\ [](Running =>
            /\ Len(equity_curve) = Processed
            /\ \A k \in 1..Len(equity_curve) :
                  /\ equity_curve[k].datetime = TimeOfBar(df, k)
                  /\ equity_curve[k].price = df.rows[k].close
                  /\ equity_curve[k].signal = SignalAt(k)
                  /\ equity_curve[k].position = SignalBefore(k))
    /\ [][/\ pc = "loop" => equity_curve' = Append(equity_curve, ArrivalSnapshot)
          /\ pc \in {"close", "stats"} => equity_curve' = equity_curve]_vars

C13_Witness ==
    /\ pc = "close"
    /\ Len(equity_curve) = 3
    /\ equity_curve[3].position # Zero
    /\ equity_curve[3].signal = equity_curve[3].position
    /\ equity_curve[3].equity # capital
    /\ equity_curve[2].position = Zero

\* C14: after the loop has processed a bar, the held position is that bar's
\* signal: before the first bar it is 0, a non-zero signal on the first bar
\* is held as soon as that bar is processed (entered at that bar's price and
\* timestamp), a signal of 0 leaves position and notional 0, and the
\* position is never anything but 0 or a signal of the frame.
C14_PositionIsLastSignal ==
    pc \in {"loop", "close"} =>
        /\ Processed = 0 => position = Zero /\ position_value = Zero
        /\ Processed >= 1 =>
              /\ position = SignalAt(Processed)
              /\ SignalAt(Processed) = Zero => position_value = Zero
        /\ (Processed = 1 /\ SignalAt(1) # Zero) =>
              /\ entry_price = df.rows[1].close
              /\ entry_time = TimeOfBar(df, 1)
              /\ position_value # Zero
        /\ position \in {Zero} \cup {SignalAt(k) : k \in 1..Bars}

C14_Witness ==
    /\ pc = "loop"
    /\ i = 3
    /\ SignalAt(1) = One
    /\ position = Half
    /\ SignalAt(3) = Zero

\* The variables a bar without a trade must leave alone.
Holdings ==
    <<capital, position, entry_price, entry_time, position_value,
      trades, daily_pnl, transaction_costs>>

\* C15: a bar whose signal equals the held position changes nothing but the
\* equity curve, which grows by one snapshot; and during the loop and the
\* forced close capital changes only in a step that closes or opens a
\* position, i.e. one that charges a transaction cost.
C15_HoldBarsChangeNothing ==
    [][/\ (pc = "loop" /\ df.rows[i].signal = position) =>
             /\ Holdings' = Holdings
             /\ Len(equity_curve') = Len(equity_curve) + 1
       /\ (pc \in {"loop", "close"} /\ capital' # capital) =>
             /\ Len(transaction_costs') > Len(transaction_costs)
             /\ \/ Len(trades') = Len(trades) + 1
                \/ position = Zero /\ position' # Zero]_vars

C15_Witness ==
    /\ pc \in {"loop", "close"}
    /\ Processed = 3
    /\ SignalAt(2) = QNeg(One)
    /\ SignalAt(3) = QNeg(One)
    /\ position = QNeg(One)
    /\ entry_time = TimeOfBar(df, 2)
    /\ equity_curve[3].equity # capital

\* The bar at which the position now held was opened: the last processed bar
\* whose signal differs from the one before it.
StretchStart ==
    CHOOSE k \in 1..Processed :
        /\ SignalAt(k) # SignalBefore(k)
        /\ \A j \in (k + 1)..Processed : SignalAt(j) = SignalBefore(j)

\* C16: while a position is held, the last cost charged is its entry cost,
\* notional * cost_rate; the notional is the capital before that cost was
\* deducted (capital since then plus the cost) times |position|; and entry
\* price and entry time are still those of the bar that opened it, however
\* many bars have passed since.
C16_NotionalIsCapitalAtEntry ==
    (pc \in {"loop", "close"} /\ position # Zero) =>
        LET entry_cost == transaction_costs[Len(transaction_costs)]
        IN  /\ entry_cost = QMul(position_value, self.transaction_cost_pct)
            /\ position_value = QMul(QAdd(capital, entry_cost), QAbs(position))
            /\ entry_price = df.rows[StretchStart].close
            /\ entry_time = TimeOfBar(df, StretchStart)

C16_Witness ==
    /\ pc = "close"
    /\ Processed = 3
    /\ position = Half
    /\ StretchStart = 2
    /\ SignalAt(1) = One
    /\ self.transaction_cost_pct # Zero
    /\ df.rows[3].close # df.rows[2].close

\* Gross P&L of the held position at a price, written out from the variables.
HeldPnl(price) ==
    IF QGt(position, Zero)
    THEN QMul(position_value, QSub(QDiv(price, entry_price), One))
    ELSE QMul(position_value, QSub(One, QDiv(price, entry_price)))

\* The bar about to be processed changes a non-zero position to another
\* non-zero one.
AtReversal ==
    /\ pc = "loop"
    /\ position # Zero
    /\ df.rows[i].signal # Zero
    /\ df.rows[i].signal # position

\* C17: a bar that changes one non-zero position into another records one
\* Trade for the old position (its direction, size, entry, and this bar's
\* price and time as exit), charges an exit cost on the old notional (its
\* absolute value times the rate, line 100) and then
\* an entry cost on the new notional, and opens the new position on the same
\* bar at the same price with a notional computed from the capital after the
\* realized P&L and the exit cost.
C17_ReversalClosesThenOpens ==
    [][AtReversal =>
         LET price == df.rows[i].close
             signal == df.rows[i].signal
             exit_cost == QMul(QAbs(position_value), self.transaction_cost_pct)
             after_close == QSub(QAdd(capital, HeldPnl(price)), exit_cost)
             new_value == QMul(after_close, QAbs(signal))
             entry_cost == QMul(new_value, self.transaction_cost_pct)
             t == trades'[Len(trades')]
         IN  /\ Len(trades') = Len(trades) + 1
             /\ SubSeq(trades', 1, Len(trades)) = trades
             /\ t.position_type = (IF QGt(position, Zero) THEN "LONG" ELSE "SHORT")
             /\ t.position_size = QAbs(position)
             /\ t.entry_price = entry_price
             /\ t.entry_time = entry_time
             /\ t.exit_price = price
             /\ t.exit_time = TimeOfBar(df, i)
             /\ t.pnl = HeldPnl(price)
             /\ transaction_costs' = transaction_costs \o <<exit_cost, entry_cost>>
             /\ position' = signal
             /\ position_value' = new_value
             /\ entry_price' = price
             /\ entry_time' = TimeOfBar(df, i)
             /\ capital' = QSub(after_close, entry_cost)]_vars

C17_Witness ==
    /\ pc \in {"loop", "close"}
    /\ Processed >= 2
    /\ SignalAt(Processed) = Half
    /\ SignalAt(Processed - 1) = QNeg(One)
    /\ Len(trades) >= 1
    /\ trades[Len(trades)].position_type = "SHORT"
    /\ trades[Len(trades)].pnl # Zero
    /\ trades[Len(trades)].transaction_cost # Zero
    /\ entry_time = trades[Len(trades)].exit_time

\* Every bar of the caller's frame has a timestamp that parses.
ValidTimestamps ==
    /\ data.has_dt
    /\ \A k \in 1..Len(data.rows) : data.rows[k].datetime # <<>>

\* The calendar dates on which a Trade of the ledger exits.
ExitDates == {DateOf(trades[k].exit_time) : k \in 1..Len(trades)}

\* Sum of net_pnl over the Trades that exit on date d.
NetPnlOn(d) ==
    LET ExitsOn(t) == DateOf(t.exit_time) = d
    IN  QSum(NetPnls(SelectSeq(trades, ExitsOn)))

\* C18: with valid timestamps, at every point of the call daily P&L has an
\* entry for exactly the dates on which some Trade exited (the forced close
\* included), each entry is the sum of net_pnl of the Trades exiting on that
\* date, and the entries add up to the sum of net_pnl over the ledger.
C18_DailyPnlIsNetPnlByExitDate ==
    (Running /\ ValidTimestamps) =>
        /\ DOMAIN daily_pnl = ExitDates
        /\ \A d \in DOMAIN daily_pnl : daily_pnl[d] = NetPnlOn(d)
        /\ QSum(ValuesOf(daily_pnl)) = QSum(NetPnls(trades))

C18_Witness ==
    /\ pc = "stats"
    /\ ValidTimestamps
    /\ Len(trades) = 2
    /\ OpenAtEnd = 1
    /\ Cardinality(DOMAIN daily_pnl) = 1
    /\ trades[1].net_pnl # Zero
    /\ trades[2].net_pnl # Zero
    /\ trades[1].exit_time # trades[2].exit_time

\* (equity - running maximum) / running maximum * 100 at snapshot k, written
\* out from the equity curve.
DrawdownAt(k) ==
    LET peak == QMax(SubSeq(EquityOf(equity_curve), 1, k))
    IN  QMul(QDiv(QSub(equity_curve[k].equity, peak), peak), Hundred)

\* The equity curve never falls, and equity is positive.
NonDecreasing ==
    /\ \A k \in 1..Len(equity_curve) : QGt(equity_curve[k].equity, Zero)
    /\ \A k \in 1..(Len(equity_curve) - 1) :
          QLe(equity_curve[k].equity, equity_curve[k + 1].equity)

\* What C19 says of a curve that is not empty.
DrawdownOfCurve ==
    /\ \E k \in 1..Len(equity_curve) : results.max_drawdown = DrawdownAt(k)
    /\ \A k \in 1..Len(equity_curve) : QLe(results.max_drawdown, DrawdownAt(k))
    /\ QLe(results.max_drawdown, Zero)
    /\ NonDecreasing => results.max_drawdown = Zero

\* C19: when the statistics are computed, max_drawdown is the minimum over
\* the equity curve of (equity - running maximum) / running maximum * 100, it
\* is never positive, and it is exactly 0 when the curve never falls or is
\* empty (so the call on an empty curve returns).
C19_MaxDrawdownIsMinimum ==
    pc \in {"done", "raised"} =>
        IF equity_curve = <<>>
        THEN pc = "done" /\ results.max_drawdown = Zero
        ELSE pc = "done" => DrawdownOfCurve

\* The gross pnl of the Trades of the ledger.
GrossPnls == [k \in 1..Len(trades) |-> trades[k].pnl]

\* C20: at every point of the call capital - initial_capital is the sum of
\* gross pnl over the ledger minus the sum of the costs charged so far; a
\* call that returns reports final_capital and total_transaction_cost for
\* which this holds, total_transaction_cost being the sum of every entry
\* cost and every exit cost of the run (one pair per Trade).
C20_CapitalIsPnlLessCosts ==
    /\ Running =>
          QSub(capital, self.initial_capital) =
              QSub(QSum(GrossPnls), QSum(transaction_costs))
    /\ pc = "done" =>
          /\ QSub(results.final_capital, self.initial_capital) =
                QSub(QSum(GrossPnls), results.total_transaction_cost)
          /\ results.trades_df = trades
          /\ results.total_transaction_cost = QSum(transaction_costs)
          /\ Len(transaction_costs) = 2 * Len(trades)
          /\ \A k \in 1..Len(trades) :
                transaction_costs[2 * k] = trades[k].transaction_cost

C20_Witness ==
    /\ pc = "done"
    /\ Len(trades) = 2
    /\ QSum(GrossPnls) # Zero
    /\ results.total_transaction_cost # Zero
    /\ trades[1].pnl # Zero
    /\ trades[2].pnl # Zero
    /\ results.final_capital # self.initial_capital

\* The transaction_cost fields of the Trades of the ledger.
TradeCosts == [k \in 1..Len(trades) |-> trades[k].transaction_cost]

\* C21: once the loop and the forced close are over, the costs come in
\* pairs, one per Trade: the exit cost equals the entry cost of the same
\* position, the Trade's transaction_cost is the exit cost alone, and so a
\* call that returns reports a total_transaction_cost of twice the sum of
\* transaction_cost over the ledger.
C21_ExitCostEqualsEntryCost ==
    /\ Finished =>
          /\ Len(transaction_costs) = 2 * Len(trades)
          /\ \A k \in 1..Len(trades) :
                /\ transaction_costs[2 * k] = transaction_costs[2 * k - 1]
                /\ trades[k].transaction_cost = transaction_costs[2 * k]
    /\ pc = "done" =>
          results.total_transaction_cost = QMul(Q(2), QSum(TradeCosts))

====
